---- MODULE Spec2Model ----
(***************************************************************************)
(* Model of the WebSocket transport provider of bevy_eventwork:            *)
(*   - recv_loop / send_loop (src/src/ws.rs), the two tasks that share one *)
(*     Arc<Mutex<WsStream>> per connection and speak the 8-byte            *)
(*     little-endian length-prefixed framing protocol;                     *)
(*   - OwnedIncoming::poll_next, the accept sequence;                      *)
(*   - connect_task and the conversion of the WebSocket library's errors   *)
(*     (src/src/error.rs);                                                 *)
(*   - BincodeSerializer (src/src/serialize.rs).                           *)
(* Two endpoints, "client" and "server", are connected by one byte stream  *)
(* per direction.  An endpoint whose loops are not spawned ("idle") is a   *)
(* foreign peer: the environment writes its bytes and closes its socket.   *)
(***************************************************************************)
EXTENDS Integers, Sequences, FiniteSets, TLC

\* ------------------------------------------------------------------ bounds
MaxQueued == 2      \* packets the application queues per message source
MaxInject == 1      \* chunks a foreign peer writes
SinkCap == 1        \* capacity of the message sink channel
MaxConns == 3       \* connections that reach the listener
ShortLen == 3       \* bytes a short read or a short write transfers
MaxConnects == 3    \* calls of connect_task
MaxStr == 2         \* length of the strings and byte vectors given to the codec

\* ------------------------------------------------------- program constants
HeaderLen == 8
DefaultMaxMessageSize == 67108864
\* lengths are usize; every value from HugeLen upwards exceeds every buffer
\* length of the model and is represented by HugeLen itself
HugeLen == 1073741824

Ends == {"client", "server"}
peer(e) == IF e = "client" THEN "server" ELSE "client"

\* ------------------------------------------------------------------- bytes
RECURSIVE to_le_bytes_n(_, _)
to_le_bytes_n(n, k) ==
    IF k = 0 THEN <<>> ELSE <<n % 256>> \o to_le_bytes_n(n \div 256, k - 1)

\* u64::to_le_bytes
to_le_bytes(n) == to_le_bytes_n(n, HeaderLen)

\* u64::from_le_bytes(..) as usize: the value of the eight bytes, least
\* significant first; a value of HugeLen or more is represented by HugeLen
from_le_bytes(b) ==
    LET hi == b[2] + 256 * b[3] + 65536 * b[4]
        upper == b[5] + b[6] + b[7] + b[8] > 0
    IN  IF upper \/ hi >= HugeLen \div 256 THEN HugeLen ELSE hi * 256 + b[1]

Take(s, n) == SubSeq(s, 1, IF n < Len(s) THEN n ELSE Len(s))
Drop(s, n) == SubSeq(s, n + 1, Len(s))
Min(a, b) == IF a < b THEN a ELSE b

\* ----------------------------------------------------------------- packets
\* NetworkPacket { kind: String, data: Vec<u8> }
ping == [kind |-> <<112>>, data |-> <<49, 50>>]
pong == [kind |-> <<113>>, data |-> <<>>]
Packets == {ping, pong}

\* bincode::serialize of a NetworkPacket (fixed-width little-endian lengths)
bincode_serialize(p) ==
    to_le_bytes(Len(p.kind)) \o p.kind \o to_le_bytes(Len(p.data)) \o p.data

\* bincode::deserialize::<NetworkPacket>: [ok, packet]; trailing bytes allowed
bincode_deserialize(b) ==
    IF Len(b) < HeaderLen THEN [ok |-> FALSE, packet |-> ping]
    ELSE
      LET kl == from_le_bytes(Take(b, HeaderLen))
          r1 == Drop(b, HeaderLen)
      IN  IF kl > Len(r1) \/ \E i \in 1..Min(kl, Len(r1)) : r1[i] >= 128
            THEN [ok |-> FALSE, packet |-> ping]
          ELSE
            LET r2 == Drop(r1, kl)
            IN  IF Len(r2) < HeaderLen THEN [ok |-> FALSE, packet |-> ping]
                ELSE
                  LET dl == from_le_bytes(Take(r2, HeaderLen))
                      r3 == Drop(r2, HeaderLen)
                  IN  IF dl > Len(r3) THEN [ok |-> FALSE, packet |-> ping]
                      ELSE [ok |-> TRUE,
                            packet |-> [kind |-> Take(r1, kl),
                                        data |-> Take(r3, dl)]]

\* one frame on the wire: length prefix immediately followed by the body
Frame(p) == to_le_bytes(Len(bincode_serialize(p))) \o bincode_serialize(p)

RECURSIVE Frames(_)
Frames(ps) == IF ps = <<>> THEN <<>> ELSE Frame(Head(ps)) \o Frames(Tail(ps))

\* ---------------------------------------------------------------- settings
NoneSize == [is_some |-> FALSE, v |-> 0]
SomeSize(n) == [is_some |-> TRUE, v |-> n]
\* settings.max_message_size values explored: default, one that admits pong
\* but not ping, one smaller than the header
MaxMessageSizes == {NoneSize, SomeSize(18), SomeSize(4)}

VARIABLES
    settings,       \* [Ends -> Option<usize>]   settings.max_message_size
    lock,           \* [Ends -> {"free","recv","send"}]  holder of the Mutex
    wire,           \* [Ends -> Seq(byte)]  bytes in flight towards the end
    eof,            \* [Ends -> BOOLEAN]    the stream towards the end is closed
    recv_pc, recv_status, length, packet, sink, sink_closed, received,
    send_pc, send_status, encoded, source, source_closed, dequeued,
    offered, tx_log, injected,
    hdr_read,       \* what the last read of a header found and returned
    stream,         \* OwnedIncoming.stream: the in-flight accept operation
    backlog,        \* connections queued at OwnedIncoming.inner
    peers,          \* what each connecting peer does
    next_id, last_poll, yielded,
    ops_started,    \* accept operations poll_next has created
    ops_completed,  \* accept operations that returned Poll::Ready
    inner_polled,   \* the last poll_next polled the in-flight operation
    connect_pc, connect_log,
    codec_in, codec_bytes, codec_out

loop_vars == <<settings, lock, wire, eof,
               recv_pc, recv_status, length, packet, sink, sink_closed, received,
               send_pc, send_status, encoded, source, source_closed, dequeued,
               offered, tx_log, injected, hdr_read>>
accept_vars == <<stream, backlog, peers, next_id, last_poll, yielded,
                 ops_started, ops_completed, inner_polled>>
connect_vars == <<connect_pc, connect_log>>
codec_vars == <<codec_in, codec_bytes, codec_out>>
vars == <<loop_vars, accept_vars, connect_vars, codec_vars>>

\* let mut buffer = vec![0; settings.max_message_size.unwrap_or(64 << 20)]
buffer_len(e) ==
    IF settings[e].is_some THEN settings[e].v ELSE DefaultMaxMessageSize

\* ------------------------------------------------------------ environment
\* chunks a foreign peer writes: whole frames, a truncated header, a
\* truncated body, an empty body, an undecodable body, a length beyond every
\* buffer
InjectChunks ==
    { Frame(ping) \o Frame(pong) \o Frame(ping), Frame(pong),
      Take(Frame(pong), 3), Take(Frame(pong), 12), to_le_bytes(0),
      to_le_bytes(2) \o <<7, 7>>, to_le_bytes(HugeLen) }

\* the application queues a packet on the message source of a send_loop
Queue(e, p) ==
    /\ send_pc[e] \notin {"idle", "done"}
    /\ ~source_closed[e]
    /\ Len(dequeued[e]) + Len(source[e]) < MaxQueued
    /\ source' = [source EXCEPT ![e] = Append(@, p)]
    /\ UNCHANGED <<settings, lock, wire, eof, recv_pc, recv_status, length,
                   packet, sink, sink_closed, received, send_pc, send_status,
                   encoded, source_closed, dequeued, offered, tx_log, injected,
                   hdr_read>>
    /\ UNCHANGED <<accept_vars, connect_vars, codec_vars>>

\* the owner of the message source drops its Sender
CloseSource(e) ==
    /\ send_pc[e] \notin {"idle", "done"}
    /\ ~source_closed[e]
    /\ source_closed' = [source_closed EXCEPT ![e] = TRUE]
    /\ UNCHANGED <<settings, lock, wire, eof, recv_pc, recv_status, length,
                   packet, sink, sink_closed, received, send_pc, send_status,
                   encoded, source, dequeued, offered, tx_log, injected, hdr_read>>
    /\ UNCHANGED <<accept_vars, connect_vars, codec_vars>>

\* the application takes one packet out of the message sink
SinkConsume(e) ==
    /\ sink[e] # <<>>
    /\ sink' = [sink EXCEPT ![e] = Tail(@)]
    /\ UNCHANGED <<settings, lock, wire, eof, recv_pc, recv_status, length,
                   packet, sink_closed, received, send_pc, send_status,
                   encoded, source, source_closed, dequeued, offered, tx_log,
                   injected, hdr_read>>
    /\ UNCHANGED <<accept_vars, connect_vars, codec_vars>>

\* the owner of the message sink drops its Receiver
CloseSink(e) ==
    /\ recv_pc[e] \notin {"idle", "done"}
    /\ ~sink_closed[e]
    /\ sink_closed' = [sink_closed EXCEPT ![e] = TRUE]
    /\ UNCHANGED <<settings, lock, wire, eof, recv_pc, recv_status, length,
                   packet, sink, received, send_pc, send_status,
                   encoded, source, source_closed, dequeued, offered, tx_log,
                   injected, hdr_read>>
    /\ UNCHANGED <<accept_vars, connect_vars, codec_vars>>

\* a foreign peer writes a chunk of bytes towards e
PeerInject(e, c) ==
    /\ send_pc[peer(e)] = "idle"
    /\ recv_pc[e] \notin {"idle", "done"}
    /\ ~eof[e]
    /\ injected < MaxInject
    /\ injected' = injected + 1
    /\ wire' = [wire EXCEPT ![e] = @ \o c]
    /\ UNCHANGED <<settings, lock, eof, recv_pc, recv_status, length,
                   packet, sink, sink_closed, received, send_pc, send_status,
                   encoded, source, source_closed, dequeued, offered, tx_log, hdr_read>>
    /\ UNCHANGED <<accept_vars, connect_vars, codec_vars>>

\* a foreign peer closes its socket
PeerClose(e) ==
    /\ send_pc[peer(e)] = "idle"
    /\ recv_pc[e] \notin {"idle", "done"}
    /\ ~eof[e]
    /\ eof' = [eof EXCEPT ![e] = TRUE]
    /\ UNCHANGED <<settings, lock, wire, recv_pc, recv_status, length,
                   packet, sink, sink_closed, received, send_pc, send_status,
                   encoded, source, source_closed, dequeued, offered, tx_log,
                   injected, hdr_read>>
    /\ UNCHANGED <<accept_vars, connect_vars, codec_vars>>

\* both loops of e have ended: the last Arc is dropped and the socket closes
SocketDrop(e) ==
    /\ recv_pc[e] \in {"idle", "done"}
    /\ send_pc[e] \in {"idle", "done"}
    /\ ~(recv_pc[e] = "idle" /\ send_pc[e] = "idle")
    /\ ~eof[peer(e)]
    /\ eof' = [eof EXCEPT ![peer(e)] = TRUE]
    /\ UNCHANGED <<settings, lock, wire, recv_pc, recv_status, length,
                   packet, sink, sink_closed, received, send_pc, send_status,
                   encoded, source, source_closed, dequeued, offered, tx_log,
                   injected, hdr_read>>
    /\ UNCHANGED <<accept_vars, connect_vars, codec_vars>>

\* --------------------------------------------------------------- recv_loop
\* RecvStop with `continue` in place of `break`
RecvStop_continue(e, status) ==
    /\ recv_pc' = [recv_pc EXCEPT ![e] = "lock"]
    /\ recv_status' = [recv_status EXCEPT ![e] = status]
    /\ lock' = [lock EXCEPT ![e] = "free"]

\* RecvStop with the MutexGuard leaked instead of dropped
RecvStop_keeps_guard(e, status) ==
    /\ recv_pc' = [recv_pc EXCEPT ![e] = "done"]
    /\ recv_status' = [recv_status EXCEPT ![e] = status]
    /\ UNCHANGED lock

\* `break` (or an unwinding panic): the MutexGuard is dropped, the task ends
RecvStop(e, status) ==
    /\ recv_pc' = [recv_pc EXCEPT ![e] = "done"]
    /\ recv_status' = [recv_status EXCEPT ![e] = status]
    /\ lock' = [lock EXCEPT ![e] = "free"]

\* messages.send(packet) completed: end of the loop body, the guard is dropped
RecvPush(e, p) ==
    /\ sink' = [sink EXCEPT ![e] = Append(@, p)]
    /\ received' = [received EXCEPT ![e] = Append(@, p)]
    /\ recv_pc' = [recv_pc EXCEPT ![e] = "lock"]
    /\ lock' = [lock EXCEPT ![e] = "free"]
    /\ UNCHANGED recv_status

\* read_half.lock().await, then the slice &mut buffer[..8]
RecvLock(e) ==
    /\ recv_pc[e] = "lock"
    /\ lock[e] = "free"
    /\ IF buffer_len(e) < HeaderLen
         THEN RecvStop(e, "panic_header_range")
         ELSE /\ lock' = [lock EXCEPT ![e] = "recv"]
              /\ recv_pc' = [recv_pc EXCEPT ![e] = "read_len"]
              /\ UNCHANGED recv_status
    /\ UNCHANGED <<settings, wire, eof, length, packet, sink, sink_closed,
                   received, send_pc, send_status, encoded, source,
                   source_closed, dequeued, offered, tx_log, injected, hdr_read>>
    /\ UNCHANGED <<accept_vars, connect_vars, codec_vars>>

\* read_len_arm with every short read taken for a disconnect
read_len_arm_short_is_eof(n) ==
    IF n = HeaderLen THEN "length" ELSE "eof"

\* the arm of `match read_half.read(&mut buffer[..8]).await` taken for Ok(n)
read_len_arm(n) ==
    IF n = 0 THEN "eof"
    ELSE IF n = HeaderLen THEN "length"
    ELSE "short_header"

\* the byte counts explored for one read into buffer[..8]: all that fits,
\* or a short read
ReadSizes(e) ==
    {0, Min(ShortLen, Len(wire[e])), Min(HeaderLen, Len(wire[e]))}

\* read_half.read(&mut buffer[..8]).await returns Ok(n)
RecvReadLen(e, n) ==
    /\ recv_pc[e] = "read_len"
    /\ hdr_read' = [hdr_read EXCEPT
                      ![e] = [n |-> n, avail |-> Len(wire[e]), eof |-> eof[e]]]
    /\ \/ /\ n = 0
          /\ wire[e] = <<>>
          /\ eof[e]
          /\ RecvStop(e, read_len_arm(n))
          /\ UNCHANGED <<wire, length>>
       \/ /\ n \in 1..Min(HeaderLen, Len(wire[e]))
          /\ n \in ReadSizes(e)
          /\ wire' = [wire EXCEPT ![e] = Drop(@, n)]
          /\ IF read_len_arm(n) = "length"
               THEN LET len == from_le_bytes(Take(wire[e], HeaderLen))
                    IN  /\ length' = [length EXCEPT ![e] = len]
                        /\ IF len > buffer_len(e)
                             \* &mut buffer[..length] is out of range
                             THEN RecvStop(e, "panic_body_range")
                             ELSE /\ recv_pc' = [recv_pc EXCEPT ![e] = "read_body"]
                                  /\ UNCHANGED <<recv_status, lock>>
               ELSE /\ RecvStop(e, read_len_arm(n))
                    /\ UNCHANGED length
    /\ UNCHANGED <<settings, eof, packet, sink, sink_closed,
                   received, send_pc, send_status, encoded, source,
                   source_closed, dequeued, offered, tx_log, injected>>
    /\ UNCHANGED <<accept_vars, connect_vars, codec_vars>>

\* read_half.read(&mut buffer[..8]).await returns Err
RecvReadLenErr(e) ==
    /\ recv_pc[e] = "read_len"
    /\ RecvStop(e, "header_error")
    /\ UNCHANGED <<settings, wire, eof, length, packet, sink, sink_closed,
                   received, send_pc, send_status, encoded, source,
                   source_closed, dequeued, offered, tx_log, injected, hdr_read>>
    /\ UNCHANGED <<accept_vars, connect_vars, codec_vars>>

\* read_exact(&mut buffer[..length]) returns Ok, then bincode::deserialize
\* and messages.send(packet)
RecvReadBody(e) ==
    /\ recv_pc[e] = "read_body"
    /\ Len(wire[e]) >= length[e]
    /\ wire' = [wire EXCEPT ![e] = Drop(@, length[e])]
    /\ LET d == bincode_deserialize(Take(wire[e], length[e]))
       IN  IF ~d.ok
             THEN /\ RecvStop(e, "decode_error")
                  /\ UNCHANGED <<packet, sink, received>>
             ELSE IF sink_closed[e]
               THEN /\ RecvStop(e, "sink_closed")
                    /\ UNCHANGED <<packet, sink, received>>
               ELSE IF Len(sink[e]) < SinkCap
                 THEN /\ RecvPush(e, d.packet)
                      /\ UNCHANGED packet
                 ELSE /\ packet' = [packet EXCEPT ![e] = d.packet]
                      /\ recv_pc' = [recv_pc EXCEPT ![e] = "send"]
                      /\ UNCHANGED <<recv_status, lock, sink, received>>
    /\ UNCHANGED <<settings, eof, length, sink_closed,
                   send_pc, send_status, encoded, source,
                   source_closed, dequeued, offered, tx_log, injected, hdr_read>>
    /\ UNCHANGED <<accept_vars, connect_vars, codec_vars>>

\* read_exact(&mut buffer[..length]) returns Err(UnexpectedEof): the stream
\* ended before the body was complete
RecvReadBodyEof(e) ==
    /\ recv_pc[e] = "read_body"
    /\ Len(wire[e]) < length[e]
    /\ eof[e]
    /\ wire' = [wire EXCEPT ![e] = <<>>]
    /\ RecvStop(e, "body_error")
    /\ UNCHANGED <<settings, eof, length, packet, sink, sink_closed,
                   received, send_pc, send_status, encoded, source,
                   source_closed, dequeued, offered, tx_log, injected, hdr_read>>
    /\ UNCHANGED <<accept_vars, connect_vars, codec_vars>>

\* read_exact(&mut buffer[..length]) returns another Err before the body is
\* complete
RecvReadBodyErr(e) ==
    /\ recv_pc[e] = "read_body"
    /\ Len(wire[e]) < length[e]
    /\ wire' = [wire EXCEPT ![e] = <<>>]
    /\ RecvStop(e, "body_error")
    /\ UNCHANGED <<settings, eof, length, packet, sink, sink_closed,
                   received, send_pc, send_status, encoded, source,
                   source_closed, dequeued, offered, tx_log, injected, hdr_read>>
    /\ UNCHANGED <<accept_vars, connect_vars, codec_vars>>

\* messages.send(packet).await resumes after waiting on a full sink
RecvSend(e) ==
    /\ recv_pc[e] = "send"
    /\ IF sink_closed[e]
         THEN /\ RecvStop(e, "sink_closed")
              /\ UNCHANGED <<sink, received>>
         ELSE /\ Len(sink[e]) < SinkCap
              /\ RecvPush(e, packet[e])
    /\ UNCHANGED <<settings, wire, eof, length, packet, sink_closed,
                   send_pc, send_status, encoded, source,
                   source_closed, dequeued, offered, tx_log, injected, hdr_read>>
    /\ UNCHANGED <<accept_vars, connect_vars, codec_vars>>

\* --------------------------------------------------------------- send_loop
\* SendStop with `continue` in place of `break`
SendStop_continue(e, status) ==
    /\ send_pc' = [send_pc EXCEPT ![e] = "recv"]
    /\ send_status' = [send_status EXCEPT ![e] = status]
    /\ lock' = [lock EXCEPT ![e] = "free"]

\* `break`: the MutexGuard is dropped, the task ends
SendStop(e, status) ==
    /\ send_pc' = [send_pc EXCEPT ![e] = "done"]
    /\ send_status' = [send_status EXCEPT ![e] = status]
    /\ lock' = [lock EXCEPT ![e] = "free"]

\* after_serialize with `break` in place of `continue`
after_serialize_break(ok) == IF ok THEN "lock" ELSE "done"

\* where send_loop goes after `match bincode::serialize(&message)`:
\* Ok => on to the lock, Err => continue
after_serialize(ok) == IF ok THEN "lock" ELSE "recv"

\* messages.recv().await, then bincode::serialize(&message) returning
\* Ok (ok = TRUE) or Err (ok = FALSE)
SendRecv(e, ok) ==
    /\ send_pc[e] = "recv"
    /\ IF source[e] = <<>>
         THEN /\ source_closed[e]
              /\ ok
              /\ send_pc' = [send_pc EXCEPT ![e] = "done"]
              /\ send_status' = [send_status EXCEPT ![e] = "closed"]
              /\ UNCHANGED <<source, dequeued, encoded>>
         ELSE /\ source' = [source EXCEPT ![e] = Tail(@)]
              /\ dequeued' = [dequeued EXCEPT
                                ![e] = Append(@, [p |-> Head(source[e]), ok |-> ok])]
              /\ UNCHANGED send_status
              /\ send_pc' = [send_pc EXCEPT ![e] = after_serialize(ok)]
              /\ encoded' = IF ok
                              THEN [encoded EXCEPT
                                      ![e] = bincode_serialize(Head(source[e]))]
                              ELSE encoded
    /\ UNCHANGED <<settings, lock, wire, eof, recv_pc, recv_status, length,
                   packet, sink, sink_closed, received, source_closed,
                   offered, tx_log, injected, hdr_read>>
    /\ UNCHANGED <<accept_vars, connect_vars, codec_vars>>

\* SendLock on a write half that is a lock of its own, not a clone of the
\* socket's
SendLock_own_lock(e) ==
    /\ send_pc[e] = "lock"
    /\ lock' = [lock EXCEPT ![e] = "send"]
    /\ send_pc' = [send_pc EXCEPT ![e] = "write_len"]
    /\ UNCHANGED <<settings, wire, eof, recv_pc, recv_status, length,
                   packet, sink, sink_closed, received, send_status, encoded,
                   source, source_closed, dequeued, offered, tx_log, injected, hdr_read>>
    /\ UNCHANGED <<accept_vars, connect_vars, codec_vars>>

\* write_half.lock().await
SendLock(e) ==
    /\ send_pc[e] = "lock"
    /\ lock[e] = "free"
    /\ lock' = [lock EXCEPT ![e] = "send"]
    /\ send_pc' = [send_pc EXCEPT ![e] = "write_len"]
    /\ UNCHANGED <<settings, wire, eof, recv_pc, recv_status, length,
                   packet, sink, sink_closed, received, send_status, encoded,
                   source, source_closed, dequeued, offered, tx_log, injected, hdr_read>>
    /\ UNCHANGED <<accept_vars, connect_vars, codec_vars>>

\* the byte counts explored for one write of the prefix: all of it, or a
\* short write
WriteSizes == {Min(ShortLen, HeaderLen), HeaderLen}

\* write_half.write(&len.to_le_bytes()).await returns Ok(n); n is not used
SendWriteLen(e, n) ==
    /\ send_pc[e] = "write_len"
    /\ n \in 1..HeaderLen
    /\ LET prefix == to_le_bytes(Len(encoded[e]))
       IN  /\ wire' = [wire EXCEPT ![peer(e)] = @ \o Take(prefix, n)]
           /\ tx_log' = [tx_log EXCEPT ![e] = @ \o Take(prefix, n)]
           /\ offered' = [offered EXCEPT ![e] = @ \o prefix]
    /\ send_pc' = [send_pc EXCEPT ![e] = "write_body"]
    /\ UNCHANGED <<settings, lock, eof, recv_pc, recv_status, length,
                   packet, sink, sink_closed, received, send_status, encoded,
                   source, source_closed, dequeued, injected, hdr_read>>
    /\ UNCHANGED <<accept_vars, connect_vars, codec_vars>>

\* write_half.write(&len.to_le_bytes()).await returns Err
SendWriteLenErr(e) ==
    /\ send_pc[e] = "write_len"
    /\ SendStop(e, "write_failed")
    /\ UNCHANGED <<settings, wire, eof, recv_pc, recv_status, length,
                   packet, sink, sink_closed, received, encoded,
                   source, source_closed, dequeued, offered, tx_log, injected, hdr_read>>
    /\ UNCHANGED <<accept_vars, connect_vars, codec_vars>>

\* write_half.write_all(&encoded).await returns Ok: end of the loop body
SendWriteBody(e) ==
    /\ send_pc[e] = "write_body"
    /\ wire' = [wire EXCEPT ![peer(e)] = @ \o encoded[e]]
    /\ tx_log' = [tx_log EXCEPT ![e] = @ \o encoded[e]]
    /\ offered' = [offered EXCEPT ![e] = @ \o encoded[e]]
    /\ send_pc' = [send_pc EXCEPT ![e] = "recv"]
    /\ lock' = [lock EXCEPT ![e] = "free"]
    /\ UNCHANGED <<settings, eof, recv_pc, recv_status, length,
                   packet, sink, sink_closed, received, send_status, encoded,
                   source, source_closed, dequeued, injected, hdr_read>>
    /\ UNCHANGED <<accept_vars, connect_vars, codec_vars>>

\* the byte counts explored for a write_all that fails part-way
BodyCuts == {0, 1}

\* write_half.write_all(&encoded).await returns Err after k bytes went out
SendWriteBodyErr(e, k) ==
    /\ send_pc[e] = "write_body"
    /\ k \in 0..(Len(encoded[e]) - 1)
    /\ wire' = [wire EXCEPT ![peer(e)] = @ \o Take(encoded[e], k)]
    /\ tx_log' = [tx_log EXCEPT ![e] = @ \o Take(encoded[e], k)]
    /\ SendStop(e, "write_failed")
    /\ UNCHANGED <<settings, eof, recv_pc, recv_status, length,
                   packet, sink, sink_closed, received, encoded,
                   source, source_closed, dequeued, offered, injected, hdr_read>>
    /\ UNCHANGED <<accept_vars, connect_vars, codec_vars>>

\* ----------------------------------------------------------- OwnedIncoming
NoStream == [st |-> "none", conn |-> 0]
PollPending == [tag |-> "Pending", conn |-> 0]
ReadyNone == [tag |-> "ReadyNone", conn |-> 0]
ReadySome(c) == [tag |-> "ReadySome", conn |-> c]

\* good: sends a well-formed upgrade request; bad: sends a malformed one;
\* stall: connects and never sends; tcp_err: accept() itself returns Err
PeerKinds == {"good", "bad", "stall", "tcp_err"}

\* a peer connects to the listener
Connect(k) ==
    /\ next_id <= MaxConns
    /\ peers' = [peers EXCEPT ![next_id] = [kind |-> k, hello |-> FALSE]]
    /\ backlog' = Append(backlog, next_id)
    /\ next_id' = next_id + 1
    /\ UNCHANGED <<stream, last_poll, yielded,
                   ops_started, ops_completed, inner_polled>>
    /\ UNCHANGED <<loop_vars, connect_vars, codec_vars>>

\* the upgrade request of a peer arrives
ClientHello(c) ==
    /\ peers[c].kind \in {"good", "bad"}
    /\ ~peers[c].hello
    /\ peers' = [peers EXCEPT ![c].hello = TRUE]
    /\ UNCHANGED <<stream, backlog, next_id, last_poll, yielded,
                   ops_started, ops_completed, inner_polled>>
    /\ UNCHANGED <<loop_vars, connect_vars, codec_vars>>

\* one poll of the boxed future: [res, stream, backlog] after it ran from
\* state s as far as it can
poll_stream(s) ==
    LET upgrade(c, bl) ==
            \* async_tungstenite::accept_async(stream).await
            IF ~peers[c].hello
              THEN [res |-> PollPending,
                    stream |-> [st |-> "upgrade", conn |-> c], backlog |-> bl]
            ELSE IF peers[c].kind = "good"
              THEN [res |-> ReadySome(c), stream |-> NoStream, backlog |-> bl]
              ELSE [res |-> ReadyNone, stream |-> NoStream, backlog |-> bl]
    IN  IF s.st = "upgrade" THEN upgrade(s.conn, backlog)
        \* listener.accept().await.map(|(s, _)| s).ok()
        ELSE IF backlog = <<>>
          THEN [res |-> PollPending, stream |-> s, backlog |-> backlog]
        ELSE IF peers[Head(backlog)].kind = "tcp_err"
          THEN [res |-> ReadyNone, stream |-> NoStream, backlog |-> Tail(backlog)]
          ELSE upgrade(Head(backlog), Tail(backlog))

\* poll_next without the `if incoming.stream.is_none()` test: every pull
\* starts a new accept operation
poll_next_restart ==
    LET fresh == TRUE
        started == IF fresh THEN [st |-> "accept", conn |-> 0] ELSE stream
        r == poll_stream(started)
        ready == r.res.tag # "Pending"
    IN  /\ stream' = IF ready THEN NoStream ELSE r.stream
        /\ ops_started' = IF fresh THEN ops_started + 1 ELSE ops_started
        /\ ops_completed' = IF ready THEN ops_completed + 1 ELSE ops_completed
        /\ inner_polled' = TRUE
        /\ backlog' = r.backlog
        /\ last_poll' = r.res
        /\ yielded' = IF r.res.tag = "ReadySome"
                        THEN Append(yielded, r.res.conn) ELSE yielded
        /\ UNCHANGED <<peers, next_id>>
        /\ UNCHANGED <<loop_vars, connect_vars, codec_vars>>

\* poll_next that stores a new accept operation and returns Poll::Pending
\* without polling it
poll_next_lazy ==
    LET fresh == stream.st = "none"
        r == poll_stream(stream)
        ready == r.res.tag # "Pending"
    IN  IF fresh
          THEN /\ stream' = [st |-> "accept", conn |-> 0]
               /\ ops_started' = ops_started + 1
               /\ inner_polled' = FALSE
               /\ last_poll' = PollPending
               /\ UNCHANGED <<ops_completed, backlog, yielded, peers, next_id>>
               /\ UNCHANGED <<loop_vars, connect_vars, codec_vars>>
          ELSE /\ stream' = IF ready THEN NoStream ELSE r.stream
               /\ ops_completed' = IF ready THEN ops_completed + 1
                                             ELSE ops_completed
               /\ inner_polled' = TRUE
               /\ backlog' = r.backlog
               /\ last_poll' = r.res
               /\ yielded' = IF r.res.tag = "ReadySome"
                               THEN Append(yielded, r.res.conn) ELSE yielded
               /\ UNCHANGED <<ops_started, peers, next_id>>
               /\ UNCHANGED <<loop_vars, connect_vars, codec_vars>>

\* OwnedIncoming::poll_next
poll_next ==
    LET fresh == stream.st = "none"
        started == IF fresh THEN [st |-> "accept", conn |-> 0] ELSE stream
        r == poll_stream(started)
        ready == r.res.tag # "Pending"
    IN  /\ stream' = IF ready THEN NoStream ELSE r.stream
        /\ ops_started' = IF fresh THEN ops_started + 1 ELSE ops_started
        /\ ops_completed' = IF ready THEN ops_completed + 1 ELSE ops_completed
        /\ inner_polled' = TRUE
        /\ backlog' = r.backlog
        /\ last_poll' = r.res
        /\ yielded' = IF r.res.tag = "ReadySome"
                        THEN Append(yielded, r.res.conn) ELSE yielded
        /\ UNCHANGED <<peers, next_id>>
        /\ UNCHANGED <<loop_vars, connect_vars, codec_vars>>

\* ------------------------------------------------------------- connect_task
Ok(v) == [tag |-> "Ok", v |-> v]
Err(v) == [tag |-> "Err", v |-> v]
Panic(v) == [tag |-> "Panic", v |-> v]
NoResult == [tag |-> "None", v |-> 0]

\* the variants of async_tungstenite::tungstenite::Error
WsErrors ==
    {"ConnectionClosed", "AlreadyClosed", "Io", "Tls", "Capacity", "Protocol",
     "WriteBufferFull", "Utf8", "AttackAttempt", "Url", "Http", "HttpFormat"}

\* the variants a client handshake returns: the URL has no host or an
\* unsupported scheme, the TCP or TLS connection fails, the request cannot be
\* built, the response has too many headers, is not a 101 or lacks the
\* upgrade headers
HandshakeErrors ==
    {"Url", "Io", "Tls", "HttpFormat", "Capacity", "Http", "Protocol"}

\* impl From<async_tungstenite::tungstenite::Error> for NetworkError
NetworkError_from(value) ==
    CASE value = "Io" -> Ok("Io")
      [] value = "Protocol" -> Ok("Protocol")
      [] value = "Http" -> Ok("Http")
      [] OTHER -> Panic("todo")

\* connect_async_with_config(..).await? ; Ok(Arc::new(Mutex::new(..)))
connect_task(outcome) ==
    IF outcome = "Connected" THEN Ok("Socket")
    ELSE LET e == NetworkError_from(outcome)
         IN  IF e.tag = "Panic" THEN e ELSE Err(e.v)

\* connect_task is called and awaits the handshake
ConnectBegin ==
    /\ connect_pc = "idle"
    /\ Len(connect_log) < MaxConnects
    /\ connect_pc' = "handshake"
    /\ UNCHANGED <<connect_log, loop_vars, accept_vars, codec_vars>>

\* the handshake is over and connect_task returns
ConnectComplete(outcome) ==
    /\ connect_pc = "handshake"
    /\ connect_log' = Append(connect_log, [outcome |-> outcome,
                                           result |-> connect_task(outcome)])
    /\ connect_pc' = "idle"
    /\ UNCHANGED <<loop_vars, accept_vars, codec_vars>>

\* -------------------------------------------------------- BincodeSerializer
\* BincodeSerializer::serialize
serialize(value) == Ok(bincode_serialize(value))

\* deserialize with unwrap() in place of map_err
deserialize_unwrap(bytes) ==
    LET d == bincode_deserialize(bytes)
    IN  IF d.ok THEN Ok(d.packet) ELSE Panic("unwrap")

\* BincodeSerializer::deserialize
deserialize(bytes) ==
    LET d == bincode_deserialize(bytes)
    IN  IF d.ok THEN Ok(d.packet) ELSE Err("Serialization")

SeqsUpTo(S, n) == UNION {[1..k -> S] : k \in 0..n}

\* packets given to the codec: kind is valid UTF-8, data is any bytes
CodecPackets ==
    {[kind |-> k, data |-> d] :
        k \in SeqsUpTo({112, 113}, MaxStr), d \in SeqsUpTo({0, 255}, MaxStr)}

\* byte strings that are no encoding of a packet: every proper prefix of an
\* encoding, a kind that is not UTF-8, a length that exceeds the input
Malformed ==
    {Take(bincode_serialize(x[1]), x[2]) :
        x \in {y \in CodecPackets \X (0..(2 * HeaderLen + 2 * MaxStr)) :
                    y[2] < Len(bincode_serialize(y[1]))}}
    \cup {to_le_bytes(1) \o <<200>> \o to_le_bytes(0),
          to_le_bytes(HugeLen) \o <<112>>,
          to_le_bytes(0) \o to_le_bytes(3) \o <<1, 2>>}

NoInput == [kind |-> "none", v |-> 0]
CodecInputs ==
    {[kind |-> "packet", v |-> p] : p \in CodecPackets}
    \cup {[kind |-> "bytes", v |-> b] : b \in Malformed}

CodecSerialize ==
    /\ codec_in.kind = "packet"
    /\ codec_bytes.tag = "None"
    /\ codec_bytes' = serialize(codec_in.v)
    /\ UNCHANGED <<codec_in, codec_out, loop_vars, accept_vars, connect_vars>>

CodecDeserialize ==
    /\ codec_bytes.tag = "Ok"
    /\ codec_out.tag = "None"
    /\ codec_out' = deserialize(codec_bytes.v)
    /\ UNCHANGED <<codec_in, codec_bytes, loop_vars, accept_vars, connect_vars>>

\* ------------------------------------------------------------ initial states
AcceptInit ==
    /\ stream = NoStream
    /\ backlog = <<>>
    /\ peers = [i \in 1..(MaxConns + 1) |-> [kind |-> "absent", hello |-> FALSE]]
    /\ next_id = 1
    /\ last_poll = [tag |-> "NotPolled", conn |-> 0]
    /\ yielded = <<>>
    /\ ops_started = 0
    /\ ops_completed = 0
    /\ inner_polled = FALSE

\* no connect_task has been called
ConnectInit ==
    /\ connect_pc = "idle"
    /\ connect_log = <<>>

\* the codec is given the input x
CodecInit(x) ==
    /\ codec_in = x
    /\ codec_bytes = IF x.kind = "bytes" THEN [tag |-> "Ok", v |-> x.v]
                                         ELSE NoResult
    /\ codec_out = NoResult

IdleInit == AcceptInit /\ ConnectInit /\ CodecInit(NoInput)

\* recvs, sends: the ends whose recv_loop / send_loop task is spawned
LoopInit(recvs, sends, sizes) ==
    /\ settings \in [Ends -> sizes]
    /\ lock = [e \in Ends |-> "free"]
    /\ wire = [e \in Ends |-> <<>>]
    /\ eof = [e \in Ends |-> FALSE]
    /\ recv_pc = [e \in Ends |-> IF e \in recvs THEN "lock" ELSE "idle"]
    /\ recv_status = [e \in Ends |-> "running"]
    /\ length = [e \in Ends |-> 0]
    /\ packet = [e \in Ends |-> ping]
    /\ sink = [e \in Ends |-> <<>>]
    /\ sink_closed = [e \in Ends |-> FALSE]
    /\ received = [e \in Ends |-> <<>>]
    /\ send_pc = [e \in Ends |-> IF e \in sends THEN "recv" ELSE "idle"]
    /\ send_status = [e \in Ends |-> "running"]
    /\ encoded = [e \in Ends |-> <<>>]
    /\ source = [e \in Ends |-> <<>>]
    /\ source_closed = [e \in Ends |-> FALSE]
    /\ dequeued = [e \in Ends |-> <<>>]
    /\ offered = [e \in Ends |-> <<>>]
    /\ tx_log = [e \in Ends |-> <<>>]
    /\ injected = 0
    /\ hdr_read = [e \in Ends |-> [n |-> 0, avail |-> 0, eof |-> FALSE]]

\* one connection of this program against a foreign peer
Init ==
    /\ LoopInit({"server"}, {"server"}, MaxMessageSizes)
    /\ settings["client"] = NoneSize
    /\ IdleInit

\* a recv_loop alone on its socket, fed by a foreign peer
InitRecv ==
    /\ LoopInit({"server"}, {}, MaxMessageSizes)
    /\ settings["client"] = NoneSize
    /\ IdleInit

\* a send_loop alone on its socket, writing to a foreign peer
InitSend == LoopInit({}, {"server"}, {NoneSize}) /\ IdleInit

\* a send_loop whose write half feeds the read half of a recv_loop
InitPipe == LoopInit({"server"}, {"client"}, {NoneSize}) /\ IdleInit

\* a client and a server, each running both loops on its split socket
InitE2E == LoopInit(Ends, Ends, {NoneSize}) /\ IdleInit

\* the listener alone
InitAccept == LoopInit({}, {}, {NoneSize}) /\ IdleInit

\* calls of connect_task alone
InitConnect == LoopInit({}, {}, {NoneSize}) /\ IdleInit

\* the codec alone, given a packet or a byte string
InitCodec ==
    /\ LoopInit({}, {}, {NoneSize})
    /\ AcceptInit
    /\ ConnectInit
    /\ \E x \in CodecInputs : CodecInit(x)

\* ------------------------------------------------------------ specifications
\* recv_loop, its message sink and the peer that feeds it
NextRecv ==
    \E e \in Ends :
        \/ SinkConsume(e)
        \/ CloseSink(e)
        \/ \E c \in InjectChunks : PeerInject(e, c)
        \/ PeerClose(e)
        \/ SocketDrop(e)
        \/ RecvLock(e)
        \/ \E n \in 0..HeaderLen : RecvReadLen(e, n)
        \/ RecvReadLenErr(e)
        \/ RecvReadBody(e)
        \/ RecvReadBodyEof(e)
        \/ RecvReadBodyErr(e)
        \/ RecvSend(e)

\* send_loop and its message source
NextSend ==
    \E e \in Ends :
        \/ \E p \in Packets : Queue(e, p)
        \/ CloseSource(e)
        \/ SocketDrop(e)
        \/ \E ok \in BOOLEAN : SendRecv(e, ok)
        \/ SendLock(e)
        \/ \E n \in WriteSizes : SendWriteLen(e, n)
        \/ SendWriteLenErr(e)
        \/ SendWriteBody(e)
        \/ \E k \in BodyCuts : SendWriteBodyErr(e, k)

Next == NextRecv \/ NextSend

Spec == Init /\ [][Next]_vars

SpecRecv == InitRecv /\ [][NextRecv]_vars

SpecSend == InitSend /\ [][NextSend]_vars

\* no call fails; the stream may still split the bytes into chunks
NextPipe ==
    \E e \in Ends :
        \/ \E p \in Packets : Queue(e, p)
        \/ CloseSource(e)
        \/ SinkConsume(e)
        \/ SocketDrop(e)
        \/ RecvLock(e)
        \/ \E n \in 0..HeaderLen : RecvReadLen(e, n)
        \/ RecvReadBody(e)
        \/ RecvReadBodyEof(e)
        \/ RecvSend(e)
        \/ SendRecv(e, TRUE)
        \/ SendLock(e)
        \/ \E n \in WriteSizes : SendWriteLen(e, n)
        \/ SendWriteBody(e)

SpecPipe == InitPipe /\ [][NextPipe]_vars

\* no call fails and every read and write transfers all the bytes asked for
NextE2E ==
    \E e \in Ends :
        \/ \E p \in Packets : Queue(e, p)
        \/ SinkConsume(e)
        \/ RecvLock(e)
        \/ RecvReadLen(e, HeaderLen)
        \/ RecvReadBody(e)
        \/ RecvSend(e)
        \/ SendRecv(e, TRUE)
        \/ SendLock(e)
        \/ SendWriteLen(e, HeaderLen)
        \/ SendWriteBody(e)

FairE2E ==
    /\ InitE2E
    /\ [][NextE2E]_vars
    /\ \A e \in Ends :
        /\ WF_vars(SinkConsume(e))
        /\ WF_vars(RecvLock(e))
        /\ WF_vars(RecvReadLen(e, HeaderLen))
        /\ WF_vars(RecvReadBody(e))
        /\ WF_vars(RecvSend(e))
        /\ WF_vars(SendRecv(e, TRUE))
        /\ WF_vars(SendLock(e))
        /\ WF_vars(SendWriteLen(e, HeaderLen))
        /\ WF_vars(SendWriteBody(e))

NextAccept ==
    \/ \E k \in PeerKinds : Connect(k)
    \/ \E c \in 1..MaxConns : ClientHello(c)
    \/ poll_next

SpecAccept == InitAccept /\ [][NextAccept]_vars

FairAccept ==
    /\ InitAccept
    /\ [][NextAccept]_vars
    /\ WF_vars(poll_next)
    /\ \A c \in 1..MaxConns : WF_vars(ClientHello(c))

NextConnect ==
    \/ ConnectBegin
    \/ \E o \in {"Connected"} \cup HandshakeErrors : ConnectComplete(o)

SpecConnect == InitConnect /\ [][NextConnect]_vars

NextCodec == CodecSerialize \/ CodecDeserialize

SpecCodec == InitCodec /\ [][NextCodec]_vars

\* ------------------------------------------------------------------ claims
\* every packet the application has put into the message source of e
Queued(e) == [i \in 1..Len(dequeued[e]) |-> dequeued[e][i].p] \o source[e]

IsPrefix(a, b) == Len(a) <= Len(b) /\ a = SubSeq(b, 1, Len(a))

\* the packets of e whose encoding succeeded and whose two writes are over
Written(e) ==
    LET oks == SelectSeq(dequeued[e], LAMBDA d : d.ok)
    IN  [i \in 1..Len(oks) |-> oks[i].p]

\* C1: framing round-trip. Over a pipe from the send_loop of the client to
\* the recv_loop of the server, the packets pushed into the sink are always
\* a prefix of the packets queued, and once both loops have ended they are
\* exactly the packets queued, in order.
C1_RoundTrip ==
    /\ IsPrefix(received["server"], Queued("client"))
    /\ (send_pc["client"] = "done" /\ recv_pc["server"] = "done")
          => received["server"] = Queued("client")

\* C2: end-to-end delivery. With both loops running on both sockets, every
\* packet queued on one side is eventually pushed, unchanged and in its
\* position, into the sink of the other side.
C2_Delivery ==
    \A e \in Ends : \A i \in 1..MaxQueued :
        (Len(Queued(e)) >= i)
            ~> (/\ Len(received[peer(e)]) >= i
                /\ received[peer(e)][i] = Queued(e)[i])

\* the recv_loop of e is suspended on bytes the peer has not sent
RecvAwaitsPeer(e) ==
    /\ ~eof[e]
    /\ \/ recv_pc[e] = "read_len" /\ wire[e] = <<>>
       \/ recv_pc[e] = "read_body" /\ Len(wire[e]) < length[e]

\* the recv_loop of e is suspended on space in the message sink
RecvAwaitsSink(e) ==
    recv_pc[e] = "send" /\ ~sink_closed[e] /\ Len(sink[e]) >= SinkCap

\* C3: lock scope. The socket lock is never held by a loop that is suspended
\* on bytes the peer has not yet sent or on space in the message sink.
C3_LockScope ==
    \A e \in Ends :
        lock[e] = "recv" => ~RecvAwaitsPeer(e) /\ ~RecvAwaitsSink(e)

\* C4: oversize rejection. After a header whose length exceeds the buffer
\* allocated from max_message_size, recv_loop has stopped, without a panic
\* and without pushing a packet for that frame.
C4_OversizeRejected ==
    \A e \in Ends :
        length[e] > buffer_len(e)
            => /\ recv_pc[e] = "done"
               /\ recv_status[e] \notin {"panic_header_range", "panic_body_range"}

\* C5: truncated header. A header read that meets end-of-file with fewer
\* than 8 bytes available ends recv_loop in that one read: cleanly ("eof")
\* when no byte was available, with a framing error ("short_header") when 1
\* to 7 were; the lock is released, no packet is pushed, and a recv_loop that
\* has ended never takes a byte from the read half again.
C5_TruncatedHeader ==
    [][\A e \in Ends :
        /\ (/\ recv_pc[e] = "read_len"
            /\ eof[e]
            /\ Len(wire[e]) < HeaderLen
            /\ hdr_read'[e] # hdr_read[e])
              => /\ recv_pc'[e] = "done"
                 /\ lock'[e] = "free"
                 /\ received'[e] = received[e]
                 /\ sink'[e] = sink[e]
                 /\ recv_status'[e] =
                       IF wire[e] = <<>> THEN "eof" ELSE "short_header"
        /\ recv_pc[e] = "done"
              => /\ recv_pc'[e] = "done"
                 /\ IsPrefix(wire[e], wire'[e])
                 /\ received'[e] = received[e]
      ]_vars

\* a header read found 1 to 7 bytes before end-of-file and recv_loop ended
W_C5 ==
    \E e \in Ends :
        /\ hdr_read[e].eof
        /\ hdr_read[e].avail \in 1..(HeaderLen - 1)
        /\ hdr_read[e].n >= 1
        /\ recv_pc[e] = "done"
        /\ recv_status[e] = "short_header"

Range(f) == {f[i] : i \in DOMAIN f}

\* C6: accept resilience. Every peer that connects and sends a well-formed
\* upgrade request is eventually yielded by the accept sequence, whatever
\* the peers before it did.
C6_AcceptResilience ==
    \A c \in 1..MaxConns :
        (peers[c].kind = "good") ~> (c \in Range(yielded))

\* C7: the accept sequence is infinite. No pull reports end-of-sequence
\* (Poll::Ready(None)).
C7_NeverEnds == last_poll # ReadyNone

\* b is a concatenation of complete frames
RECURSIVE WellFramed(_)
WellFramed(b) ==
    IF b = <<>> THEN TRUE
    ELSE IF Len(b) < HeaderLen THEN FALSE
    ELSE LET len == from_le_bytes(Take(b, HeaderLen))
         IN  IF Len(b) - HeaderLen < len THEN FALSE
             ELSE WellFramed(Drop(b, HeaderLen + len))

\* C8: frame integrity. Whenever the send_loop of e is between two frames
\* and no write has failed, the bytes its stream accepted are a
\* concatenation of complete frames.
C8_FrameIntegrity ==
    \A e \in Ends :
        (send_pc[e] \in {"recv", "lock", "done"} /\ send_status[e] # "write_failed")
            => WellFramed(tx_log[e])

Front(q) == SubSeq(q, 1, Len(q) - 1)

\* the bytes send_loop has handed to write and write_all are the frames of
\* the packets that encoded, in the order they were dequeued
FramedInOrder(e) ==
    send_status[e] # "write_failed"
        => offered[e] =
             IF send_pc[e] \in {"lock", "write_len"}
               THEN Frames(Front(Written(e)))
             ELSE IF send_pc[e] = "write_body"
               THEN Frames(Front(Written(e)))
                      \o to_le_bytes(Len(encoded[e]))
             ELSE Frames(Written(e))

\* C9: encode failure is skip-and-continue. The step that dequeues a packet
\* whose encoding fails writes nothing, leaves the lock alone and leaves
\* send_loop running at its next dequeue; the bytes handed to the stream are
\* always the frames of the packets that encoded, in order.
C9_EncodeSkip ==
    /\ [](\A e \in Ends : FramedInOrder(e))
    /\ [][\A e \in Ends :
            (/\ Len(dequeued'[e]) > Len(dequeued[e])
             /\ ~dequeued'[e][Len(dequeued'[e])].ok)
               => /\ tx_log' = tx_log
                  /\ offered' = offered
                  /\ wire' = wire
                  /\ lock' = lock
                  /\ send_pc'[e] = "recv"
                  /\ send_status'[e] = "running"
         ]_vars

\* a packet failed to encode and the next one went out whole
W_C9 ==
    \E e \in Ends :
        /\ Len(dequeued[e]) = 2
        /\ ~dequeued[e][1].ok
        /\ dequeued[e][2].ok
        /\ send_pc[e] = "recv"
        /\ tx_log[e] = Frame(dequeued[e][2].p)

\* C10: a write failure aborts send_loop. When a write has failed the loop
\* is over and does not hold the lock; from then on it dequeues nothing and
\* no byte of it reaches the stream.
C10_WriteFailureAborts ==
    [][\A e \in Ends :
        /\ send_status'[e] = "write_failed"
              => send_pc'[e] = "done" /\ lock'[e] # "send"
        /\ send_status[e] = "write_failed"
              => /\ tx_log'[e] = tx_log[e]
                 /\ offered'[e] = offered[e]
                 /\ dequeued'[e] = dequeued[e]
                 /\ send_status'[e] = "write_failed"
      ]_vars

\* a write failed while packets were still queued
W_C10 ==
    \E e \in Ends :
        /\ send_status[e] = "write_failed"
        /\ send_pc[e] = "done"
        /\ source[e] # <<>>
        /\ lock[e] = "free"

\* C11: error mapping is total. Every call of connect_task returns a socket
\* or a typed NetworkError, whichever error the handshake ends with; no call
\* ends in the panic of an unimplemented conversion.
C11_MappingTotal ==
    \A i \in 1..Len(connect_log) : connect_log[i].result.tag \in {"Ok", "Err"}

\* a client and a server, each running both loops on its split socket; reads
\* and writes transfer all the bytes asked for or fail
NextDuplex ==
    \E e \in Ends :
        \/ Queue(e, ping)
        \/ SinkConsume(e)
        \/ RecvLock(e)
        \/ RecvReadLen(e, HeaderLen)
        \/ RecvReadLenErr(e)
        \/ RecvReadBody(e)
        \/ RecvReadBodyErr(e)
        \/ RecvSend(e)
        \/ SendRecv(e, TRUE)
        \/ SendLock(e)
        \/ SendWriteLen(e, HeaderLen)
        \/ SendWriteLenErr(e)
        \/ SendWriteBody(e)
        \/ SendWriteBodyErr(e, 0)

SpecDuplex == InitE2E /\ [][NextDuplex]_vars

\* the loops and the lock of end e
LoopsAt(e) ==
    <<lock[e], recv_pc[e], recv_status[e], send_pc[e], send_status[e]>>

\* C12: direction isolation. A loop that has ended holds no lock, so the other
\* loop of the socket, when it waits for the lock, can take it; and the step
\* in which a recv_loop or send_loop ends on a failure frees the lock of its
\* socket, leaves the other loop of that socket where it was and leaves the
\* loops and the lock of the other socket unchanged.
C12_DirectionIsolation ==
    /\ [](\A e \in Ends :
            /\ recv_pc[e] = "done" => lock[e] # "recv"
            /\ send_pc[e] = "done" => lock[e] # "send"
            /\ (recv_pc[e] = "done" /\ send_pc[e] = "lock")
                  => ENABLED SendLock(e)
            /\ (send_pc[e] = "done" /\ recv_pc[e] = "lock")
                  => ENABLED RecvLock(e))
    /\ [][\A e \in Ends :
            /\ (recv_pc[e] # "done" /\ recv_pc'[e] = "done")
                  => /\ lock'[e] = "free"
                     /\ send_pc'[e] = send_pc[e]
                     /\ send_status'[e] = send_status[e]
                     /\ LoopsAt(peer(e))' = LoopsAt(peer(e))
            /\ (send_pc[e] # "done" /\ send_pc'[e] = "done"
                    /\ send_status'[e] # "closed")
                  => /\ lock'[e] = "free"
                     /\ recv_pc'[e] = recv_pc[e]
                     /\ recv_status'[e] = recv_status[e]
                     /\ LoopsAt(peer(e))' = LoopsAt(peer(e))]_vars

\* a recv_loop has ended on a failure and the send_loop of the same socket
\* holds the lock and has written; both loops of the other socket run
W_C12 ==
    \E e \in Ends :
        /\ recv_pc[e] = "done" /\ recv_status[e] = "header_error"
        /\ lock[e] = "send" /\ send_pc[e] = "write_body"
        /\ recv_pc[peer(e)] \notin {"idle", "done"}
        /\ send_pc[peer(e)] \notin {"idle", "done"}

\* C13: codec round-trip. serialize of a packet succeeds and deserialize of
\* its bytes returns that packet; deserialize of bytes that are no encoding
\* of a packet returns Err(Serialization), never a panic.
C13_CodecRoundTrip ==
    /\ (codec_in.kind = "packet" /\ codec_bytes.tag # "None")
          => codec_bytes.tag = "Ok"
    /\ codec_out.tag # "None"
          => IF codec_in.kind = "packet"
               THEN codec_out.tag = "Ok" /\ codec_out.v = codec_in.v
               ELSE codec_out.tag = "Err" /\ codec_out.v = "Serialization"

\* a packet with a kind and data of full length went through both calls
W_C13 ==
    /\ codec_in.kind = "packet"
    /\ Len(codec_in.v.kind) = MaxStr /\ Len(codec_in.v.data) = MaxStr
    /\ codec_out.tag = "Ok"

\* C14: single-slot invariant. The accept operations started and not yet
\* completed are one when the slot is occupied and none when it is empty; a
\* pull starts an operation only when it finds the slot empty, and the pull in
\* which an operation completes leaves the slot empty with no operation
\* started after the completed one.
C14_SingleSlot ==
    /\ [](ops_started - ops_completed = IF stream.st = "none" THEN 0 ELSE 1)
    /\ [][/\ ops_started' # ops_started
                => (stream.st = "none" /\ ops_started' = ops_started + 1)
          /\ ops_completed' # ops_completed
                => /\ stream'.st = "none"
                   /\ ops_completed' = ops_completed + 1
                   /\ ops_started' = ops_completed']_vars

\* two operations have completed and a third one is in flight, waiting for
\* the upgrade request of its peer
W_C14 == ops_completed >= 2 /\ stream.st = "upgrade"

InRead(e) == recv_pc[e] \in {"read_len", "read_body"}
InWrite(e) == send_pc[e] \in {"write_len", "write_body"}

\* C15: mutual exclusion. On each socket the recv_loop is inside a read only
\* while it holds the lock of the socket, the send_loop is inside a write only
\* while it holds that same lock, and the two are never inside a read and a
\* write at the same time.
C15_MutualExclusion ==
    \A e \in Ends :
        /\ InRead(e) => lock[e] = "recv"
        /\ InWrite(e) => lock[e] = "send"
        /\ ~(InRead(e) /\ InWrite(e))

\* contention: the recv_loop is inside its header read while the send_loop of
\* the same socket has a packet encoded and waits for the lock
W_C15 == \E e \in Ends : recv_pc[e] = "read_len" /\ send_pc[e] = "lock"

\* C16: decode failure aborts the receive direction. The step that ends the
\* body read pushes the decoded packet, once, when the body arrived whole,
\* decodes and the sink is open (at once, or after waiting on a full sink);
\* otherwise it pushes nothing and recv_loop ends with the matching status.
\* No other step pushes, and a recv_loop that has ended takes no byte from
\* the read half and pushes nothing.
C16_DecodeFailureAborts ==
    [][\A e \in Ends :
        LET d == bincode_deserialize(Take(wire[e], length[e]))
            whole == Len(wire[e]) >= length[e]
        IN
        /\ (recv_pc[e] = "read_body" /\ recv_pc'[e] # "read_body")
              => IF whole /\ d.ok /\ ~sink_closed[e]
                   THEN \/ /\ recv_pc'[e] = "lock"
                           /\ received'[e] = Append(received[e], d.packet)
                        \/ /\ recv_pc'[e] = "send"
                           /\ packet'[e] = d.packet
                           /\ received'[e] = received[e]
                   ELSE /\ recv_pc'[e] = "done"
                        /\ received'[e] = received[e]
                        /\ sink'[e] = sink[e]
                        /\ recv_status'[e] =
                              IF ~whole THEN "body_error"
                              ELSE IF ~d.ok THEN "decode_error"
                              ELSE "sink_closed"
        /\ (recv_pc[e] = "send" /\ recv_pc'[e] # "send")
              => IF sink_closed[e]
                   THEN /\ recv_pc'[e] = "done"
                        /\ recv_status'[e] = "sink_closed"
                        /\ received'[e] = received[e]
                   ELSE /\ recv_pc'[e] = "lock"
                        /\ received'[e] = Append(received[e], packet[e])
        /\ recv_pc[e] \notin {"read_body", "send"}
              => received'[e] = received[e]
        /\ recv_pc[e] = "done"
              => /\ recv_pc'[e] = "done"
                 /\ IsPrefix(wire[e], wire'[e])
      ]_vars

\* a body of two bytes arrived whole, did not decode, and recv_loop ended
\* without a push
W_C16 ==
    \E e \in Ends :
        /\ recv_pc[e] = "done" /\ recv_status[e] = "decode_error"
        /\ length[e] = 2
        /\ received[e] = <<>>

\* both loops on the socket of the server; the peer is foreign and writes
\* well-formed frames or nothing at all; no call fails, every read and write
\* transfers all the bytes asked for
InitClose == LoopInit({"server"}, {"server"}, {NoneSize}) /\ IdleInit

NextClose ==
    \E e \in Ends :
        \/ \E p \in Packets : Queue(e, p)
        \/ CloseSource(e)
        \/ \E c \in {Frame(pong), Frame(ping) \o Frame(pong) \o Frame(ping)} :
              PeerInject(e, c)
        \/ SinkConsume(e)
        \/ RecvLock(e)
        \/ RecvReadLen(e, HeaderLen)
        \/ RecvReadBody(e)
        \/ RecvSend(e)
        \/ SendRecv(e, TRUE)
        \/ SendLock(e)
        \/ SendWriteLen(e, HeaderLen)
        \/ SendWriteBody(e)

FairClose ==
    /\ InitClose
    /\ [][NextClose]_vars
    /\ \A e \in Ends :
        /\ WF_vars(SinkConsume(e))
        /\ WF_vars(RecvLock(e))
        /\ WF_vars(RecvReadLen(e, HeaderLen))
        /\ WF_vars(RecvReadBody(e))
        /\ WF_vars(RecvSend(e))
        /\ WF_vars(SendRecv(e, TRUE))
        /\ WF_vars(SendLock(e))
        /\ WF_vars(SendWriteLen(e, HeaderLen))
        /\ WF_vars(SendWriteBody(e))

\* C17: send_loop terminates on a closed source. Once the message source of
\* a send_loop is closed, the loop eventually ends cleanly with the frame of
\* every queued packet handed to the write half, whatever the recv_loop of
\* the same socket is doing.
C17_SendTerminates ==
    \A e \in Ends :
        (send_pc[e] # "idle" /\ source_closed[e])
            ~> /\ send_pc[e] = "done"
               /\ send_status[e] = "closed"
               /\ offered[e] = Frames(Queued(e))

\* C18: non-blocking pull. When the last pull returned Poll::Pending the slot
\* holds an accept operation and that pull has polled it; when it returned a
\* result (a connection or the end of the stream) the slot is empty.
C18_NonBlockingPull ==
    /\ last_poll.tag = "Pending" => (stream.st # "none" /\ inner_polled)
    /\ last_poll.tag \in {"ReadySome", "ReadyNone"} => stream.st = "none"

\* a pull that found the slot empty and no connection waiting returned
\* Poll::Pending with the operation it started left in the slot
W_C18 ==
    /\ last_poll.tag = "Pending"
    /\ stream.st = "accept"
    /\ ops_started = ops_completed + 1
    /\ yielded # <<>>

\* C19: receive buffer bounds. Whatever settings.max_message_size is, the
\* header range buffer[..8] and the body range buffer[..length] that recv_loop
\* takes lie within the buffer: a recv_loop that has taken the header range
\* (or ended taking it) has a buffer of at least 8 bytes, and one that has
\* taken the body range (or ended taking it) has a buffer of at least length
\* bytes.
C19_BufferBounds ==
    \A e \in Ends :
        /\ (\/ recv_pc[e] \in {"read_len", "read_body", "send"}
            \/ recv_status[e] = "panic_header_range")
              => HeaderLen <= buffer_len(e)
        /\ (\/ recv_pc[e] \in {"read_body", "send"}
            \/ recv_status[e] = "panic_body_range")
              => length[e] <= buffer_len(e)

====
